---- MODULE Spec2Model ----
(***************************************************************************)
(* Model of the MCP card generator (streamlit_app.py) and the MCP          *)
(* attendance checker (attendance_checker.py).                             *)
(*                                                                         *)
(* Python strings are modelled as sequences of one-character strings, so   *)
(* that strip(), lower(), slicing and formatting are computed rather than  *)
(* assumed.  Python's None is the value None below.                        *)
(***************************************************************************)
EXTENDS Integers, Sequences, FiniteSets, TLC

VARIABLES
    \* ---- next_mcp_id_func: one generator object and what it has yielded
    gen, yielded, now_yy,
    \* ---- make_pdf: the canvas and the loop position
    pdf_cards, pdf_i, pdf_pages, pdf_drawn, pdf_pc,
    \* ---- Batch CSV tab: the widgets, the run's locals and its outputs
    \* (out_csv and first_file hold no file, <<>>, or one, << file >>)
    csv_file, auto_assign, prefix, year2, start_seq,
    err_miss, rows, cards, updated_rows, row_sid, skipped, out_csv,
    batch_pc, pass, first_sid, first_file,
    \* ---- attendance checker: the spreadsheet, the loaded snapshot, the lookup
    sheet, default_tabs, year_label, seminar_tabs, attendance, student_id,
    present_tabs, count, shown_tabs, att_pc

genVars   == <<gen, yielded, now_yy>>
pdfVars   == <<pdf_cards, pdf_i, pdf_pages, pdf_drawn, pdf_pc>>
batchVars == <<csv_file, auto_assign, prefix, year2, start_seq,
               err_miss, rows, cards, updated_rows, row_sid, skipped, out_csv,
               batch_pc, pass, first_sid, first_file>>
attVars   == <<sheet, default_tabs, year_label, seminar_tabs, attendance, student_id,
               present_tabs, count, shown_tabs, att_pc>>
vars      == <<genVars, pdfVars, batchVars, attVars>>

(***************************************************************************)
(* Bounds of the model.                                                    *)
(***************************************************************************)
MaxYields == 4     \* next() calls followed on one generator object
MaxCards  == 17    \* longest card list handed to make_pdf on its own
MaxRows   == 2     \* most data rows in an uploaded CSV
MaxTabs   == 3     \* longest seminar-tab list

(***************************************************************************)
(* Python values and string operations.                                    *)
(***************************************************************************)
None == << "<None>" >>

Range(s) == { s[k] : k \in 1..Len(s) }

Whitespace == { " ", "\t" }

RECURSIVE LStrip(_)
LStrip(s) ==
    IF s # <<>> /\ Head(s) \in Whitespace THEN LStrip(Tail(s)) ELSE s

RECURSIVE RStrip(_)
RStrip(s) ==
    IF s # <<>> /\ s[Len(s)] \in Whitespace
    THEN RStrip(SubSeq(s, 1, Len(s) - 1)) ELSE s

\* str.strip()
Strip(s) == RStrip(LStrip(s))

\* (v or "")
OrEmpty(v) == IF v = None \/ v = <<>> THEN <<>> ELSE v

UpperLetters == << "A","B","C","D","E","F","G","H","I","J","K","L","M",
                   "N","O","P","Q","R","S","T","U","V","W","X","Y","Z" >>
LowerLetters == << "a","b","c","d","e","f","g","h","i","j","k","l","m",
                   "n","o","p","q","r","s","t","u","v","w","x","y","z" >>

LowerOf ==
    [ c \in Range(UpperLetters) |->
        LowerLetters[CHOOSE k \in 1..26 : UpperLetters[k] = c] ]

LowerChar(c) == IF c \in DOMAIN LowerOf THEN LowerOf[c] ELSE c

\* str.lower()
Lower(s) == [ k \in 1..Len(s) |-> LowerChar(s[k]) ]

DigitChars == << "0","1","2","3","4","5","6","7","8","9" >>

RECURSIVE Digits(_)
Digits(n) ==
    IF n < 10 THEN << DigitChars[n + 1] >>
    ELSE Digits(n \div 10) \o << DigitChars[(n % 10) + 1] >>

RECURSIVE ZeroPad(_, _)
ZeroPad(s, w) == IF Len(s) >= w THEN s ELSE ZeroPad(<<"0">> \o s, w)

\* f"{n:04d}" for n >= 0 (start sequences are >= 1 in both forms)
Format04d(n) == ZeroPad(Digits(n), 4)

\* str(grad_year)[-2:]
LastTwo(s) == IF Len(s) <= 2 THEN s ELSE SubSeq(s, Len(s) - 1, Len(s))

(***************************************************************************)
(* next_mcp_id_func.  A generator object is created with its arguments and *)
(* runs no code until the first next(); it is then suspended at the yield, *)
(* before "n += 1".                                                        *)
(***************************************************************************)
NewGen(p, gy, st, tk) ==
    [ prefix |-> p, grad_year |-> gy, start |-> st, taken |-> tk,
      pc |-> "created", base |-> <<>>, n |-> 0 ]

\* lines 41-42: yy and base
GenBase(p, gy, yynow) ==
    p \o <<"-">> \o (IF gy # <<>> THEN LastTwo(gy) ELSE yynow) \o <<"-">>

\* line 45
Candidate(base, n) == base \o Format04d(n)

\* ScanFree without the test against taken
ScanFreeNoSkip(base, taken, n) == n

\* lines 44-48: the loop, from counter value n, up to the next yield
RECURSIVE ScanFree(_, _, _)
ScanFree(base, taken, n) ==
    IF Candidate(base, n) \notin taken THEN n ELSE ScanFree(base, taken, n + 1)

\* the counter value the loop resumes from
ResumeFrom(g) == IF g.pc = "created" THEN g.start ELSE g.n + 1

\* next(gen): the generator after the call
GenAfterNext(g, yynow) ==
    LET base == IF g.pc = "created" THEN GenBase(g.prefix, g.grad_year, yynow)
                ELSE g.base
    IN  [ g EXCEPT !.pc = "suspended", !.base = base,
                   !.n = ScanFree(base, g.taken, ResumeFrom(g)) ]

\* next(gen): the value yielded
GenValue(g, yynow) ==
    LET h == GenAfterNext(g, yynow) IN Candidate(h.base, h.n)

(***************************************************************************)
(* make_pdf.  Lengths are in tenths of a point (1 inch = 720).             *)
(***************************************************************************)
COLS == 2
ROWS == 4
CARD_W == 2520
CARD_H == 1620
MARGIN_X == 360
MARGIN_Y == 360
X_GAP == 216
Y_GAP == 144
PAGE_H == 7920

\* lines 119-128: where the card with loop counter i goes
CardCol(i) == i % COLS
\* CardRow without the wrap at the bottom of the grid
CardRowNoWrap(i) == i \div COLS

CardRow(i) == (i \div COLS) % ROWS
CardX(col) == MARGIN_X + col * (CARD_W + X_GAP)
CardY(row) == PAGE_H - MARGIN_Y - (row + 1) * CARD_H - row * Y_GAP

\* line 143: the grid is full after the card just drawn
GridFull(i) == i % (COLS * ROWS) = 0

\* PagePending with the final showPage unconditional
PagePendingAlways(i) == TRUE

\* line 147: a partially filled page is pending
PagePending(i) == i % (COLS * ROWS) # 0

\* lines 108-117: make_pdf(cards) up to the loop
PdfStart(cs) ==
    /\ pdf_cards' = cs
    /\ pdf_i' = 0
    /\ pdf_pages' = 0
    /\ pdf_drawn' = <<>>
    /\ pdf_pc' = "loop"

\* lines 118-144: one iteration of the loop
PdfDrawCard ==
    /\ pdf_pc = "loop"
    /\ pdf_i < Len(pdf_cards)
    /\ LET col == CardCol(pdf_i)
           row == CardRow(pdf_i)
       IN  pdf_drawn' = Append(pdf_drawn,
               [ card |-> pdf_cards[pdf_i + 1], page |-> pdf_pages,
                 col |-> col, row |-> row, x |-> CardX(col), y |-> CardY(row) ])
    /\ pdf_i' = pdf_i + 1
    /\ pdf_pages' = IF GridFull(pdf_i + 1) THEN pdf_pages + 1 ELSE pdf_pages
    /\ UNCHANGED <<pdf_cards, pdf_pc>>

\* lines 146-151: after the loop
PdfFlush ==
    /\ pdf_pc = "loop"
    /\ pdf_i = Len(pdf_cards)
    /\ pdf_pages' = IF PagePending(pdf_i) THEN pdf_pages + 1 ELSE pdf_pages
    /\ pdf_pc' = "done"
    /\ UNCHANGED <<pdf_cards, pdf_i, pdf_drawn>>

(***************************************************************************)
(* Values of the parts a specification does not exercise.                  *)
(***************************************************************************)
GenIdle ==
    /\ gen = NewGen(<<>>, <<>>, 1, {})
    /\ yielded = <<>>
    /\ now_yy = <<"2","6">>

PdfIdle ==
    /\ pdf_cards = <<>>
    /\ pdf_i = 0
    /\ pdf_pages = 0
    /\ pdf_drawn = <<>>
    /\ pdf_pc = "idle"

BatchIdle ==
    /\ csv_file = [ fieldnames |-> <<>>, lines |-> <<>> ]
    /\ auto_assign = FALSE
    /\ prefix = <<>>
    /\ year2 = <<>>
    /\ start_seq = 1
    /\ err_miss = <<>>
    /\ rows = <<>>
    /\ cards = <<>>
    /\ updated_rows = <<>>
    /\ row_sid = <<>>
    /\ skipped = 0
    /\ out_csv = <<>>
    /\ batch_pc = "idle"
    /\ pass = 0
    /\ first_sid = <<>>
    /\ first_file = <<>>

AttIdle ==
    /\ sheet = [ settings |-> <<>>, tabs |-> <<>> ]
    /\ default_tabs = <<>>
    /\ year_label = <<>>
    /\ seminar_tabs = <<>>
    /\ attendance = <<>>
    /\ student_id = <<>>
    /\ present_tabs = <<>>
    /\ count = 0
    /\ shown_tabs = <<>>
    /\ att_pc = "idle"

(***************************************************************************)
(* SpecAlloc: one generator object, called repeatedly.                     *)
(***************************************************************************)
ID_M26_1    == << "M","-","2","6","-","0","0","0","1" >>
ID_M26_2    == << "M","-","2","6","-","0","0","0","2" >>
ID_M26_4    == << "M","-","2","6","-","0","0","0","4" >>
ID_M26_9999 == << "M","-","2","6","-","9","9","9","9" >>
ID_M27_1    == << "M","-","2","7","-","0","0","0","1" >>
ID_OTHER    == << "S","2" >>

AllocPrefixes == { <<"M">>, <<>> }
AllocYears    == { <<"2","6">>, <<"2","0","2","6">>, <<>> }
AllocStarts   == { 1, 9998 }
AllocTaken    == { ID_M26_1, ID_M26_2, ID_M26_4, ID_M26_9999, ID_M27_1, ID_OTHER }
NowYears      == { <<"2","6">>, <<"2","7">> }

InitAlloc ==
    /\ gen \in { NewGen(p, gy, st, tk) :
                   p \in AllocPrefixes, gy \in AllocYears,
                   st \in AllocStarts, tk \in SUBSET AllocTaken }
    /\ yielded = <<>>
    /\ now_yy \in NowYears
    /\ PdfIdle /\ BatchIdle /\ AttIdle

\* next(gen)
NextId ==
    /\ Len(yielded) < MaxYields
    /\ gen' = GenAfterNext(gen, now_yy)
    /\ yielded' = Append(yielded, GenValue(gen, now_yy))
    /\ UNCHANGED <<now_yy, pdfVars, batchVars, attVars>>

NextAlloc == NextId

SpecAlloc == InitAlloc /\ [][NextAlloc]_vars

(***************************************************************************)
(* SpecPdf: make_pdf on card lists of every length up to MaxCards.         *)
(***************************************************************************)
CardNo(k) ==
    [ id |-> <<"S">> \o Digits(k), first |-> <<"F">>, last |-> <<"L">>,
      grad_year |-> <<>> ]

InitPdf ==
    /\ pdf_cards \in { [ k \in 1..K |-> CardNo(k) ] : K \in 0..MaxCards }
    /\ pdf_i = 0
    /\ pdf_pages = 0
    /\ pdf_drawn = <<>>
    /\ pdf_pc = "idle"
    /\ GenIdle /\ BatchIdle /\ AttIdle

\* make_pdf(cards) is called
PdfCall ==
    /\ pdf_pc = "idle"
    /\ PdfStart(pdf_cards)
    /\ UNCHANGED <<genVars, batchVars, attVars>>

PdfDrawCardStep == PdfDrawCard /\ UNCHANGED <<genVars, batchVars, attVars>>

PdfFlushStep == PdfFlush /\ UNCHANGED <<genVars, batchVars, attVars>>

NextPdf == PdfCall \/ PdfDrawCardStep \/ PdfFlushStep

SpecPdf == InitPdf /\ [][NextPdf]_vars

(***************************************************************************)
(* Batch CSV tab.  An uploaded file is its header row (reader.fieldnames)  *)
(* and its data lines, each a sequence of cells.  csv.DictReader turns a   *)
(* line into a dict keyed by the header names; the lines modelled have at  *)
(* most as many cells as there are headers.                                *)
(***************************************************************************)
Max(S) == CHOOSE m \in S : \A k \in S : k <= m

\* csv.DictReader: dict(zip(fieldnames, line)), absent trailing cells are None
DictRow(fieldnames, line) ==
    [ h \in Range(fieldnames) |->
        LET last == Max({ k \in 1..Len(fieldnames) : fieldnames[k] = h })
        IN  IF last <= Len(line) THEN line[last] ELSE None ]

\* line 221: rows = list(reader)
ReadRows(file) ==
    [ k \in 1..Len(file.lines) |-> DictRow(file.fieldnames, file.lines[k]) ]

\* r.get(h), and r.get(None) for an absent optional header
RowGet(r, h) == IF h # None /\ h \in DOMAIN r THEN r[h] ELSE None

\* (r.get(h) or "").strip()
Field(r, h) == Strip(OrEmpty(RowGet(r, h)))

\* HeaderKey without lower()
HeaderKeyExact(h) == h

\* line 210: headers_lower = {h.lower(): h for h in fieldnames}
HeaderKey(h) == Lower(h)

HeadersLower(fieldnames) ==
    [ key \in { HeaderKey(fieldnames[k]) : k \in 1..Len(fieldnames) } |->
        fieldnames[Max({ k \in 1..Len(fieldnames) :
                           HeaderKey(fieldnames[k]) = key })] ]

\* headers_lower.get(key)
HeaderGet(hl, key) == IF key \in DOMAIN hl THEN hl[key] ELSE None

KEY_SID  == << "s", "t", "u", "d", "e", "n", "t", " ", "i", "d" >>
KEY_FN   == << "f", "i", "r", "s", "t", " ", "n", "a", "m", "e" >>
KEY_LN   == << "l", "a", "s", "t", " ", "n", "a", "m", "e" >>
KEY_GY   == << "g", "r", "a", "d", " ", "y", "e", "a", "r" >>

\* line 211
required == << KEY_SID, KEY_FN, KEY_LN >>

\* line 213
MissingHeaders(hl) == SelectSeq(required, LAMBDA h : h \notin DOMAIN hl)

\* UsedIds collecting the cells as they stand, untrimmed
UsedIdsUntrimmed(rs, sid_h) ==
    { OrEmpty(RowGet(rs[k], sid_h)) :
        k \in { j \in 1..Len(rs) : Field(rs[j], sid_h) # <<>> } }

\* line 222
UsedIds(rs, sid_h) ==
    { Field(rs[k], sid_h) : k \in { j \in 1..Len(rs) : Field(rs[j], sid_h) # <<>> } }

\* line 233: the row gets an ID from the generator
NeedsId(sid, auto) == sid = <<>> /\ auto

\* WriteBack leaving the row as it was
WriteBackDropped(r, sid_h, sid) == r

\* line 235: r[sid_h] = sid
WriteBack(r, sid_h, sid) == [ r EXCEPT ![sid_h] = sid ]

\* GivesCard without the test of the last name
GivesCardNoLast(sid, first, last) == sid # <<>> /\ first # <<>>

\* line 237: the row gives a card
GivesCard(sid, first, last) == sid # <<>> /\ first # <<>> /\ last # <<>>

\* lines 227-239: the loop over rows, from row k on.  st holds the locals
\* the loop changes: rows (written back in place), gen, yielded, cards,
\* updated_rows and the sid each row ended with.
RECURSIVE RowLoop(_, _, _, _)
RowLoop(st, k, h, auto) ==
    IF k > Len(st.rows) THEN st
    ELSE
      LET r     == st.rows[k]
          sid0  == Field(r, h.sid)
          first == Field(r, h.fn)
          last  == Field(r, h.ln)
          gy    == IF h.gy # None THEN Field(r, h.gy) ELSE <<>>
          fill  == NeedsId(sid0, auto)
          sid   == IF fill THEN GenValue(st.gen, now_yy) ELSE sid0
          r2    == IF fill THEN WriteBack(r, h.sid, sid) ELSE r
          st2   == [ rows         |-> [ st.rows EXCEPT ![k] = r2 ],
                     gen          |-> IF fill THEN GenAfterNext(st.gen, now_yy)
                                      ELSE st.gen,
                     yielded      |-> IF fill THEN Append(st.yielded, sid)
                                      ELSE st.yielded,
                     cards        |-> IF GivesCard(sid, first, last)
                                      THEN Append(st.cards,
                                             [ id |-> sid, first |-> first,
                                               last |-> last, grad_year |-> gy ])
                                      ELSE st.cards,
                     updated_rows |-> Append(st.updated_rows, r2),
                     row_sid      |-> Append(st.row_sid, sid) ]
      IN  RowLoop(st2, k + 1, h, auto)

\* line 241: the rows counted as skipped, read from rows after the loop
IsMissing(r, h) ==
    ~ (Field(r, h.sid) # <<>> /\ Field(r, h.fn) # <<>> /\ Field(r, h.ln) # <<>>)

MissingRows(rs, h) == SelectSeq(rs, LAMBDA r : IsMissing(r, h))

\* lines 203-243: one run of the script over the uploaded file
BatchRun ==
    /\ batch_pc = "uploaded"
    /\ \E hl \in { HeadersLower(csv_file.fieldnames) } :
         IF MissingHeaders(hl) # <<>>
         THEN /\ err_miss' = MissingHeaders(hl)
              /\ batch_pc' = "error"
              /\ UNCHANGED <<gen, yielded, rows, cards, updated_rows,
                             row_sid, skipped>>
         ELSE \E h \in { [ sid |-> hl[KEY_SID], fn |-> hl[KEY_FN],
                           ln |-> hl[KEY_LN], gy |-> HeaderGet(hl, KEY_GY) ] } :
              \E rs \in { ReadRows(csv_file) } :
              \E st \in { RowLoop([ rows |-> rs,
                                    gen |-> NewGen(prefix, year2, start_seq,
                                                   UsedIds(rs, h.sid)),
                                    yielded |-> <<>>, cards |-> <<>>,
                                    updated_rows |-> <<>>, row_sid |-> <<>> ],
                                  1, h, auto_assign) } :
                /\ rows' = st.rows
                /\ gen' = st.gen
                /\ yielded' = st.yielded
                /\ cards' = st.cards
                /\ updated_rows' = st.updated_rows
                /\ row_sid' = st.row_sid
                /\ skipped' = Len(MissingRows(st.rows, h))
                /\ err_miss' = <<>>
                /\ batch_pc' = "ready"
    /\ UNCHANGED <<csv_file, auto_assign, prefix, year2, start_seq, out_csv,
                   pass, first_sid, first_file, now_yy, pdfVars, attVars>>

\* lines 245-246: "Generate Batch PDF" is pressed and make_pdf(cards) starts
GenerateBatchPDF ==
    /\ batch_pc = "ready"
    /\ PdfStart(cards)
    /\ batch_pc' = "pdf"
    /\ UNCHANGED <<csv_file, auto_assign, prefix, year2, start_seq, err_miss,
                   rows, cards, updated_rows, row_sid, skipped, out_csv,
                   pass, first_sid, first_file, genVars, attVars>>

BatchDrawCard ==
    /\ batch_pc = "pdf"
    /\ PdfDrawCard
    /\ UNCHANGED <<genVars, batchVars, attVars>>

BatchFlush ==
    /\ batch_pc = "pdf"
    /\ PdfFlush
    /\ UNCHANGED <<genVars, batchVars, attVars>>

\* csv.writer: None is written as the empty string
WriteCell(v) == IF v = None THEN <<>> ELSE v

\* WriteRow writing the trimmed cells
WriteRowTrimmed(fieldnames, r) ==
    [ j \in 1..Len(fieldnames) |-> Strip(WriteCell(RowGet(r, fieldnames[j]))) ]

\* DictWriter.writerows: one line per row, the cells in fieldnames order
WriteRow(fieldnames, r) ==
    [ j \in 1..Len(fieldnames) |-> WriteCell(RowGet(r, fieldnames[j])) ]

\* lines 254-264: the updated CSV offered for download
ExportCsv ==
    /\ batch_pc = "pdf"
    /\ pdf_pc = "done"
    /\ out_csv' = << [ fieldnames |-> csv_file.fieldnames,
                       lines |-> [ k \in 1..Len(updated_rows) |->
                                     WriteRow(csv_file.fieldnames, updated_rows[k]) ] ] >>
    /\ batch_pc' = "exported"
    /\ UNCHANGED <<csv_file, auto_assign, prefix, year2, start_seq, err_miss,
                   rows, cards, updated_rows, row_sid, skipped,
                   pass, first_sid, first_file, genVars, pdfVars, attVars>>

\* the downloaded Students_With_IDs.csv is uploaded in place of the first
\* file, the widgets left as they are (file_uploader, line 196)
Reimport ==
    /\ batch_pc = "exported"
    /\ pass = 1
    /\ csv_file' = out_csv[1]
    /\ first_file' = << csv_file >>
    /\ first_sid' = row_sid
    /\ pass' = 2
    /\ batch_pc' = "uploaded"
    /\ UNCHANGED <<auto_assign, prefix, year2, start_seq, err_miss,
                   rows, cards, updated_rows, row_sid, skipped, out_csv,
                   genVars, pdfVars, attVars>>

(***************************************************************************)
(* SpecBatch: every file built from the header rows and cells below, under *)
(* each setting of the widgets.                                            *)
(***************************************************************************)
H_StudentID  == << "S", "t", "u", "d", "e", "n", "t", " ", "I", "D" >>
H_student_id == << "s", "t", "u", "d", "e", "n", "t", " ", "i", "d" >>
H_FirstName  == << "F", "i", "r", "s", "t", " ", "N", "a", "m", "e" >>
H_FIRST_NAME == << "F", "I", "R", "S", "T", " ", "N", "A", "M", "E" >>
H_LastName   == << "L", "a", "s", "t", " ", "N", "a", "m", "e" >>
H_GradYear   == << "G", "r", "a", "d", " ", "Y", "e", "a", "r" >>
H_Email      == << "E", "m", "a", "i", "l" >>
H_Name       == << "N", "a", "m", "e" >>

HeaderRows ==
    { << H_StudentID, H_FirstName, H_LastName >>,
      << H_LastName, H_student_id, H_FIRST_NAME, H_GradYear >>,
      << H_FirstName, H_LastName >>,
      << H_StudentID, H_Email >>,
      << H_Name, H_Email >>,
      <<>> }

\* the cells tried in a column, by its header
CellsFor(header) ==
    CASE Lower(header) = KEY_SID ->
           { <<>>, <<" ">>, <<" ">> \o ID_M26_1 \o <<" ">> }
      [] Lower(header) = KEY_FN -> { <<>>, << " ", "A" >> }
      [] Lower(header) = KEY_LN -> { <<>>, << "L", " " >> }
      [] Lower(header) = KEY_GY -> { << "2", "0", "2", "6" >> }
      [] OTHER -> { << "x" >> }

\* the lines over the first j columns
RECURSIVE LinesUpTo(_, _)
LinesUpTo(fieldnames, j) ==
    IF j = 0 THEN { <<>> }
    ELSE { Append(line, c) : line \in LinesUpTo(fieldnames, j - 1),
                             c \in CellsFor(fieldnames[j]) }

LinesFor(fieldnames) == LinesUpTo(fieldnames, Len(fieldnames))

\* the bodies of at most n lines
RECURSIVE BodiesUpTo(_, _)
BodiesUpTo(lines, n) ==
    IF n = 0 THEN { <<>> }
    ELSE LET shorter == BodiesUpTo(lines, n - 1)
         IN  shorter \cup { Append(body, line) :
                              body \in { b \in shorter : Len(b) = n - 1 },
                              line \in lines }

\* an empty file has no data lines
FilesFor(fieldnames) ==
    { [ fieldnames |-> fieldnames, lines |-> body ] :
        body \in BodiesUpTo(LinesFor(fieldnames),
                            IF fieldnames = <<>> THEN 0 ELSE MaxRows) }

BatchPrefixes == { <<"M">>, << " ", "M" >> }
BatchYears    == { << "2", "0", "2", "6" >> }
BatchStarts   == { 1 }

InitBatch ==
    /\ csv_file \in UNION { FilesFor(fieldnames) : fieldnames \in HeaderRows }
    /\ auto_assign \in BOOLEAN
    /\ prefix \in BatchPrefixes
    /\ year2 \in BatchYears
    /\ start_seq \in BatchStarts
    /\ err_miss = <<>>
    /\ rows = <<>>
    /\ cards = <<>>
    /\ updated_rows = <<>>
    /\ row_sid = <<>>
    /\ skipped = 0
    /\ out_csv = <<>>
    /\ batch_pc = "uploaded"
    /\ pass = 1
    /\ first_sid = <<>>
    /\ first_file = <<>>
    /\ GenIdle /\ PdfIdle /\ AttIdle

NextBatch ==
    \/ BatchRun
    \/ GenerateBatchPDF
    \/ BatchDrawCard
    \/ BatchFlush
    \/ ExportCsv
    \/ Reimport

SpecBatch == InitBatch /\ [][NextBatch]_vars

(***************************************************************************)
(* Attendance checker.  The spreadsheet is its Settings tab (cell B1 and    *)
(* column A) when there is one, settings = << tab >>, else settings = <<>>, *)
(* and, for each seminar tab that exists, the values of its student-ID     *)
(* column.                                                                 *)
(***************************************************************************)
KEY_STUDENTID == << "s", "t", "u", "d", "e", "n", "t", "i", "d" >>

\* the characters of the model in code-point order
CharOrder == << "\t", " ", "-" >> \o DigitChars \o UpperLetters \o LowerLetters

Ord(c) == CHOOSE k \in 1..Len(CharOrder) : CharOrder[k] = c

\* s < t for Python strings
RECURSIVE StrLess(_, _)
StrLess(s, t) ==
    IF t = <<>> THEN FALSE
    ELSE IF s = <<>> THEN TRUE
    ELSE IF Head(s) # Head(t) THEN Ord(Head(s)) < Ord(Head(t))
    ELSE StrLess(Tail(s), Tail(t))

\* int(x) succeeds: decimal digits, whitespace around them allowed (signs
\* and digit separators do not occur in the tab names modelled)
IsInt(s) == Strip(s) # <<>> /\ \A k \in 1..Len(Strip(s)) : Strip(s)[k] \in Range(DigitChars)

DigitVal(c) == (CHOOSE k \in 1..10 : DigitChars[k] = c) - 1

RECURSIVE DigitsVal(_)
DigitsVal(s) ==
    IF s = <<>> THEN 0
    ELSE 10 * DigitsVal(SubSeq(s, 1, Len(s) - 1)) + DigitVal(s[Len(s)])

\* int(x)
IntOf(s) == DigitsVal(Strip(s))

\* the order sorted() compares by: key=int, or the strings themselves
TabLess(a, b, numeric) ==
    IF numeric THEN IntOf(a) < IntOf(b) ELSE StrLess(a, b)

\* sorted() / list.sort(): stable
RECURSIVE InsertSorted(_, _, _)
InsertSorted(sorted, x, numeric) ==
    IF sorted = <<>> THEN << x >>
    ELSE IF TabLess(x, sorted[Len(sorted)], numeric)
         THEN Append(InsertSorted(SubSeq(sorted, 1, Len(sorted) - 1), x, numeric),
                     sorted[Len(sorted)])
         ELSE Append(sorted, x)

RECURSIVE SortBy(_, _)
SortBy(s, numeric) ==
    IF s = <<>> THEN <<>>
    ELSE InsertSorted(SortBy(SubSeq(s, 1, Len(s) - 1), numeric), s[Len(s)], numeric)

\* lines 64-67: numeric order when every name is an integer, else string order
SortTabs(ts) == SortBy(ts, \A k \in 1..Len(ts) : IsInt(ts[k]))

\* line 31: the seminar names listed in Settings!A2:A
SettingsTabs(colA) ==
    LET rest == IF colA = <<>> THEN <<>> ELSE Tail(colA)
        kept == SelectSeq(rest, LAMBDA v : v # <<>> /\ Strip(v) # <<>>)
    IN  [ k \in 1..Len(kept) |-> Strip(kept[k]) ]

\* lines 25-35
ConfiguredTabs(sh, defaults) ==
    IF sh.settings = <<>> THEN defaults
    ELSE IF SettingsTabs(sh.settings[1].colA) # <<>>
         THEN SettingsTabs(sh.settings[1].colA)
         ELSE defaults

\* line 29
AcademicYear(sh) ==
    IF sh.settings = <<>> THEN <<>> ELSE Strip(OrEmpty(sh.settings[1].b1))

\* line 44: the IDs of one tab's column
TabIds(vals) ==
    { Strip(vals[k]) : k \in { j \in 1..Len(vals) :
          /\ vals[j] # <<>>
          /\ Strip(vals[j]) # <<>>
          /\ Lower(Strip(vals[j])) # KEY_STUDENTID } }

\* lines 38-47: out, a dict from tab name to its set of IDs
LoadTabs(sh, ts) ==
    [ t \in Range(ts) |->
        IF t \in DOMAIN sh.tabs THEN TabIds(sh.tabs[t]) ELSE {} ]

\* attendance.get(t, set())
AttendanceGet(att, t) == IF t \in DOMAIN att THEN att[t] ELSE {}

\* line 59
PresentTabs(ts, att, sid) ==
    SelectSeq(ts, LAMBDA t : sid \in AttendanceGet(att, t))

\* lines 21-51: load_config_and_attendance() and the assignment of its result
Load ==
    /\ att_pc = "start"
    /\ \E ts \in { ConfiguredTabs(sheet, default_tabs) } :
         /\ seminar_tabs' = ts
         /\ attendance' = LoadTabs(sheet, ts)
    /\ year_label' = AcademicYear(sheet)
    /\ att_pc' = "loaded"
    /\ UNCHANGED <<sheet, default_tabs, student_id, present_tabs, count,
                   shown_tabs, genVars, pdfVars, batchVars>>

\* lines 56-69: an ID is typed into the text input and the page is rendered
Lookup(typed) ==
    /\ att_pc \in { "loaded", "shown" }
    /\ student_id' = Strip(typed)
    /\ IF Strip(typed) # <<>>
       THEN \E pt \in { PresentTabs(seminar_tabs, attendance, Strip(typed)) } :
              /\ present_tabs' = pt
              /\ count' = Len(pt)
              /\ shown_tabs' = IF pt # <<>> THEN SortTabs(pt) ELSE <<>>
       ELSE /\ present_tabs' = <<>>
            /\ count' = 0
            /\ shown_tabs' = <<>>
    /\ att_pc' = "shown"
    /\ UNCHANGED <<sheet, default_tabs, year_label, seminar_tabs, attendance,
                   genVars, pdfVars, batchVars>>

(***************************************************************************)
(* SpecAttend: spreadsheets over three tab names, and the queries below.   *)
(***************************************************************************)
TAB_2  == << "2" >>
TAB_10 == << "1", "0" >>
TAB_B  == << "B" >>
SID_A1 == << "A", "1" >>
SID_A2 == << "A", "2" >>
SID_ZZ == << "Z", "Z" >>

TabNames == { TAB_2, TAB_10, TAB_B }

TabColumns ==
    { << << "S","t","u","d","e","n","t","I","D" >>, SID_A1, <<" ">> \o SID_A2 \o <<" ">> >>,
      << << "S","t","u","d","e","n","t","I","D" >>, SID_A2, <<>> >> }

\* the cells tried in Settings!A2:A
SettingsCells == { TAB_2, TAB_10, TAB_B \o <<" ">>, <<>> }

RECURSIVE ListsUpTo(_, _)
ListsUpTo(S, n) ==
    IF n = 0 THEN { <<>> }
    ELSE LET shorter == ListsUpTo(S, n - 1)
         IN  shorter \cup { Append(l, x) :
                              l \in { b \in shorter : Len(b) = n - 1 }, x \in S }

Spreadsheets ==
    { [ settings |-> st, tabs |-> tb ] :
        st \in { <<>> } \cup
               { << [ b1 |-> << " ", "2", "6" >>,
                      colA |-> << << "T","a","b","s" >> >> \o l ] >> :
                   l \in ListsUpTo(SettingsCells, MaxTabs) },
        tb \in UNION { [ D -> TabColumns ] : D \in SUBSET TabNames } }

DefaultTabLists == { << TAB_2, TAB_10 >>, <<>> }

TypedIds == { SID_A1, <<" ">> \o SID_A2, SID_ZZ, <<" ">> }

InitAttend ==
    /\ sheet \in Spreadsheets
    /\ default_tabs \in DefaultTabLists
    /\ year_label = <<>>
    /\ seminar_tabs = <<>>
    /\ attendance = <<>>
    /\ student_id = <<>>
    /\ present_tabs = <<>>
    /\ count = 0
    /\ shown_tabs = <<>>
    /\ att_pc = "start"
    /\ GenIdle /\ PdfIdle /\ BatchIdle

LookupAny == \E typed \in TypedIds : Lookup(typed)

NextAttend == Load \/ LookupAny

SpecAttend == InitAttend /\ [][NextAttend]_vars

(***************************************************************************)
(* Properties of the allocator (SpecAlloc).                                *)
(***************************************************************************)
\* the year token as it appears in an ID: its last two characters, or the
\* current two-digit year when the token is empty
YearToken == IF gen.grad_year # <<>> THEN LastTwo(gen.grad_year) ELSE now_yy

IdHead == gen.prefix \o <<"-">> \o YearToken \o <<"-">>

\* the part of an ID after prefix-yy-
IdTail(s) == SubSeq(s, Len(IdHead) + 1, Len(s))

\* s is prefix-yy-n: the head, then n in decimal, zero-padded to four digits
HasIdForm(s) ==
    /\ Len(s) >= Len(IdHead) + 4
    /\ SubSeq(s, 1, Len(IdHead)) = IdHead
    /\ \A k \in 1..Len(IdTail(s)) : IdTail(s)[k] \in Range(DigitChars)
    /\ (Len(IdTail(s)) > 4 => IdTail(s)[1] # "0")

IdNumber(s) == DigitsVal(IdTail(s))

\* C1: no yielded ID is in the used set, every yielded ID is prefix-yy-n
\* with n >= start, and the numbers of successive IDs strictly increase.
C1_AllocatorFreshIncreasing ==
    \A k \in 1..Len(yielded) :
        /\ yielded[k] \notin gen.taken
        /\ HasIdForm(yielded[k])
        /\ IdNumber(yielded[k]) >= gen.start
        /\ (k > 1 => IdNumber(yielded[k - 1]) < IdNumber(yielded[k]))

\* a used ID was skipped before the first yield and another between two yields
C1_Witness ==
    /\ Len(yielded) >= 3
    /\ gen.taken # {}
    /\ IdNumber(yielded[1]) > gen.start
    /\ \E k \in 2..Len(yielded) : IdNumber(yielded[k]) > IdNumber(yielded[k - 1]) + 1

(***************************************************************************)
(* Properties of make_pdf (SpecPdf).                                       *)
(***************************************************************************)
PerPage == COLS * ROWS

\* ceil(a / b)
CeilDiv(a, b) == CHOOSE p \in 0..a : p * b >= a /\ (p > 0 => (p - 1) * b < a)

\* C2: make_pdf on K cards calls showPage ceil(K / (C*R)) times; the last
\* card's page is emitted also when K mod (C*R) # 0, and a full last page
\* is not followed by an empty one.
C2_PageCount ==
    pdf_pc = "done" =>
        LET K == Len(pdf_cards)
        IN  /\ pdf_pages = CeilDiv(K, PerPage)
            /\ (K > 0 => pdf_drawn[K].page = pdf_pages - 1)
            /\ (K % PerPage = 0 => pdf_pages * PerPage = K)

\* a run over more than one page that ends on a partly filled page
C2_Witness ==
    /\ pdf_pc = "done"
    /\ Len(pdf_cards) > PerPage
    /\ Len(pdf_cards) % PerPage # 0
    /\ pdf_pages >= 2

\* C3: the card at input position i (0-based) is drawn once, on page
\* i div (C*R), in column i mod C and row (i div C) mod R; cards are drawn
\* in input order and no two cards of a page share a slot.
C3_CardPlacement ==
    /\ Len(pdf_drawn) <= Len(pdf_cards)
    /\ (pdf_pc = "done" => Len(pdf_drawn) = Len(pdf_cards))
    /\ \A j \in 1..Len(pdf_drawn) :
         /\ pdf_drawn[j].card = pdf_cards[j]
         /\ pdf_drawn[j].page = (j - 1) \div PerPage
         /\ pdf_drawn[j].col = (j - 1) % COLS
         /\ pdf_drawn[j].row = ((j - 1) \div COLS) % ROWS
    /\ \A j, k \in 1..Len(pdf_drawn) :
         (j # k /\ pdf_drawn[j].page = pdf_drawn[k].page)
            => /\ <<pdf_drawn[j].col, pdf_drawn[j].row>> # <<pdf_drawn[k].col, pdf_drawn[k].row>>
               /\ <<pdf_drawn[j].x, pdf_drawn[j].y>> # <<pdf_drawn[k].x, pdf_drawn[k].y>>

\* a finished run whose second page holds a card in the last row
C3_Witness ==
    /\ pdf_pc = "done"
    /\ \E j \in 1..Len(pdf_drawn) :
         pdf_drawn[j].page = 1 /\ pdf_drawn[j].row = ROWS - 1 /\ pdf_drawn[j].col = COLS - 1

(***************************************************************************)
(* Properties of the batch import (SpecBatch), stated over the uploaded    *)
(* file csv_file and what the run produced from it.                        *)
(***************************************************************************)
RunDone == batch_pc \in { "ready", "pdf", "exported" }

NumRows == Len(csv_file.lines)

HasCol(key) ==
    \E k \in 1..Len(csv_file.fieldnames) : Lower(csv_file.fieldnames[k]) = key

\* the required headers that no header of the file equals, case ignored
AbsentRequired == { key \in { KEY_SID, KEY_FN, KEY_LN } : ~ HasCol(key) }

\* the column read for a header key: the last one bearing it
InCol(key) ==
    Max({ k \in 1..Len(csv_file.fieldnames) : Lower(csv_file.fieldnames[k]) = key })

\* the trimmed cells of the input rows under one header key
TrimmedCol(key) ==
    IF HasCol(key)
    THEN LET c == InCol(key)
         IN  [ k \in 1..NumRows |-> Strip(csv_file.lines[k][c]) ]
    ELSE [ k \in 1..NumRows |-> <<>> ]

\* the input as the properties read it: the ID column's position and the
\* trimmed ID, names and grad year of every row
Input ==
    [ sidcol |-> IF HasCol(KEY_SID) THEN InCol(KEY_SID) ELSE 0,
      sid |-> TrimmedCol(KEY_SID), first |-> TrimmedCol(KEY_FN),
      last |-> TrimmedCol(KEY_LN), grad_year |-> TrimmedCol(KEY_GY) ]

BlankId(in, k) == in.sid[k] = <<>>

\* the number of blank-ID rows among rows 1..k
BlanksUpTo(in, k) == Cardinality({ j \in 1..k : BlankId(in, j) })

\* row k was given an ID by the allocator
Assigned(in, k) == BlankId(in, k) /\ auto_assign

\* the ID of row k after the allocation step
FinalId(in, k) ==
    IF ~ BlankId(in, k) THEN in.sid[k]
    ELSE IF auto_assign THEN yielded[BlanksUpTo(in, k)]
    ELSE <<>>

Eligible(in, k) ==
    FinalId(in, k) # <<>> /\ in.first[k] # <<>> /\ in.last[k] # <<>>

EligibleRows(in) ==
    SelectSeq([ k \in 1..NumRows |-> k ], LAMBDA k : Eligible(in, k))

\* C4: with a required header absent the run ends in the error listing
\* exactly the absent required headers and nothing else happens: no row is
\* read, no ID allocated, no card built, no PDF or CSV offered.  With all
\* three present there is no such error.
C4_MissingColumns ==
    /\ batch_pc = "error" =>
         /\ AbsentRequired # {}
         /\ Range(err_miss) = AbsentRequired
         /\ Len(err_miss) = Cardinality(AbsentRequired)
         /\ rows = <<>> /\ updated_rows = <<>> /\ cards = <<>>
         /\ yielded = <<>> /\ gen.pc = "created"
         /\ pdf_pc = "idle" /\ out_csv = <<>>
    /\ AbsentRequired # {} => batch_pc \in { "uploaded", "error" }
    /\ AbsentRequired = {} => (batch_pc # "error" /\ err_miss = <<>>)

\* a file with data lines and two required headers absent was refused
C4_Witness ==
    /\ batch_pc = "error"
    /\ Len(err_miss) = 2
    /\ NumRows > 0

\* C5: the cards are exactly the eligible rows, once each and in input
\* order, with the trimmed names and the row's ID after allocation.
C5_CardsAreEligibleRows ==
    RunDone =>
      \A in \in { Input } :
        /\ Len(yielded) = (IF auto_assign THEN BlanksUpTo(in, NumRows) ELSE 0)
        /\ Len(cards) = Len(EligibleRows(in))
        /\ \A j \in 1..Len(cards) :
             LET k == EligibleRows(in)[j]
             IN  cards[j] = [ id |-> FinalId(in, k), first |-> in.first[k],
                              last |-> in.last[k], grad_year |-> in.grad_year[k] ]

\* a run in which a blank-ID row got an ID and a card, after a row that
\* got an ID but no card
C5_Witness ==
    /\ RunDone /\ pass = 1 /\ auto_assign
    /\ \E in \in { Input } : \E j, k \in 1..NumRows :
         /\ j < k
         /\ BlankId(in, j) /\ ~ Eligible(in, j)
         /\ BlankId(in, k) /\ Eligible(in, k)
         /\ \E c \in 1..Len(cards) : cards[c].id = yielded[BlanksUpTo(in, k)]

AllFilled(in) ==
    \A k \in 1..NumRows :
        ~ BlankId(in, k) /\ in.first[k] # <<>> /\ in.last[k] # <<>>

\* C7 as claimed: importing the exported table again allocates no ID and
\* gives every row the ID it had in the first pass; a file with the three
\* required cells filled in every row gives one card per row.
C7_ReimportIdempotent ==
    /\ (RunDone /\ pass = 2 /\ auto_assign) =>
          (yielded = <<>> /\ row_sid = first_sid)
    /\ (RunDone /\ AllFilled(Input)) => Len(cards) = NumRows

\* C9: the reported number of skipped rows is the number of rows that
\* gave no card, so skipped + cards = rows.
C9_SkippedCount ==
    RunDone =>
      \A in \in { Input } :
        /\ skipped = Cardinality({ k \in 1..NumRows : ~ Eligible(in, k) })
        /\ skipped + Len(cards) = NumRows

\* a run with auto-assign on in which a filled-in row gave a card and
\* another row was skipped
C9_Witness ==
    /\ RunDone /\ pass = 1 /\ auto_assign
    /\ skipped > 0
    /\ \E in \in { Input } : \E k \in 1..NumRows :
         Assigned(in, k) /\ Eligible(in, k)

\* C10: the assigned IDs differ from each other and from the trimmed ID
\* of every row of the file; a row with a non-blank ID keeps it.
C10_AssignedIdsFresh ==
    RunDone =>
      \A in \in { Input } :
        /\ \A i, j \in 1..Len(yielded) : i # j => yielded[i] # yielded[j]
        /\ \A i \in 1..Len(yielded) : \A k \in 1..NumRows :
             yielded[i] # in.sid[k]
        /\ \A k \in 1..NumRows :
             ~ BlankId(in, k) =>
                 /\ row_sid[k] = in.sid[k]
                 /\ updated_rows[k][csv_file.fieldnames[in.sidcol]]
                        = csv_file.lines[k][in.sidcol]

\* a blank-ID row was filled although a later row holds the first
\* candidate, which the allocator passed over
C10_Witness ==
    /\ RunDone /\ pass = 1 /\ auto_assign
    /\ \E in \in { Input } : \E j, k \in 1..NumRows :
         /\ j < k
         /\ BlankId(in, j)
         /\ in.sid[k] = Candidate(gen.base, start_seq)
         /\ row_sid[j] = Candidate(gen.base, start_seq + 1)

(***************************************************************************)
(* Properties of the attendance lookup (SpecAttend).                       *)
(***************************************************************************)
\* the seminar names whose attendee set contains the queried ID
AttendedSeminars ==
    { t \in Range(seminar_tabs) : student_id \in AttendanceGet(attendance, t) }

\* C8 as claimed: for a non-empty query the seminars reported present are
\* exactly the seminar names whose attendee set contains the ID, the count
\* is the size of that set, and a seminar whose tab is not in the
\* spreadsheet has no attendees.
C8_LookupReportsAttendedSet ==
    /\ att_pc \in { "loaded", "shown" } =>
         \A t \in Range(seminar_tabs) :
             /\ t \in DOMAIN attendance
             /\ (t \notin DOMAIN sheet.tabs => attendance[t] = {})
    /\ (att_pc = "shown" /\ student_id # <<>>) =>
         /\ Range(present_tabs) = AttendedSeminars
         /\ Range(shown_tabs) = AttendedSeminars
         /\ count = Cardinality(AttendedSeminars)

====
